---- MODULE Spec2Model ----
(***************************************************************************)
(* A model of main.py: the ResearchAggregator of tatin0309/literaturesearch *)
(* (Gemini grounded web search + CiNii OpenSearch, rendered to HTML).       *)
(*                                                                          *)
(* Text is modelled as a sequence of symbols.  A symbol is one character    *)
(* ("a", " ", "\n", ".") or one literal fragment of the program's templates *)
(* (such as the card opening tag), so that concatenation, slicing, strip()  *)
(* and replace() act on text the way the Python code does.                  *)
(***************************************************************************)
EXTENDS Integers, Sequences, FiniteSets, TLC

VARIABLES
    pc,          \* position of the single thread of control
    dirExists,   \* whether the directory "reports" exists on disk
    file,        \* the report file on disk: [exists, content]
    query,       \* run(): local query
    response,    \* local of the active client: the reply of the remote call
    results,     \* what the active client is about to return: [raised, value]
    g_results,   \* run(): local g_results
    c_results,   \* run(): local c_results
    html,        \* generate_html_report(): html_template
    raisedFrom,  \* functions an exception has propagated out of, in order
    log          \* history: the externally visible events of the run, in order

vars == <<pc, dirExists, file, query, response, results, g_results, c_results,
          html, raisedFrom, log>>

----------------------------------------------------------------------------
(* Bounds of the model *)

MaxChunks == 3      \* grounding chunks in one model response
MaxChildren == 2    \* child elements of the feed's root element
MaxLine == 3        \* characters of the line typed at the prompt
Slack == 1          \* description lengths explored on either side of the limit

(* Program constants *)

SummaryLimit == 300 \* summary[:300], len(summary) > 300

----------------------------------------------------------------------------
(* Text helpers *)

Whitespace == {" ", "\n"}

Rep(sym, n) == [i \in 1..n |-> sym]

RECURSIVE SeqsUpTo(_, _)
SeqsUpTo(S, n) ==
    IF n = 0 THEN {<<>>}
    ELSE LET shorter == SeqsUpTo(S, n - 1)
         IN  shorter \cup {Append(s, x) : s \in {t \in shorter : Len(t) = n - 1}, x \in S}

RECURSIVE LSkip(_, _)
LSkip(s, i) == IF i > Len(s) \/ s[i] \notin Whitespace THEN i ELSE LSkip(s, i + 1)

RECURSIVE RSkip(_, _)
RSkip(s, j) == IF j < 1 \/ s[j] \notin Whitespace THEN j ELSE RSkip(s, j - 1)

\* str.strip(): drop leading and trailing whitespace, keep everything between
Strip(s) == SubSeq(s, LSkip(s, 1), RSkip(s, Len(s)))

\* sep.join(parts)
RECURSIVE Join(_, _)
Join(sep, parts) ==
    IF parts = <<>> THEN <<>>
    ELSE IF Len(parts) = 1 THEN Head(parts)
    ELSE Head(parts) \o sep \o Join(sep, Tail(parts))

\* a finite input set, enumerated in full where it is defined
Enumerated(S) == IF Cardinality(S) >= 0 THEN S ELSE {}

Count(s, sym) == Cardinality({i \in 1..Len(s) : s[i] = sym})

NoLocal == [kind |-> "none"]
Ret(v) == [kind |-> "return", raised |-> FALSE, value |-> v]

----------------------------------------------------------------------------
(* search_google: the Gemini call and the extraction of grounding chunks *)

CardOpen == "<div class=\"card\">"
NoResultsText == "No results found."

\* A grounding chunk: chunk.web may be unset; uri and title may be empty.
\* broken marks a chunk whose attribute access raises (a malformed response).
Chunk(web, uri, title, broken) ==
    [web |-> web, uri |-> uri, title |-> title, broken |-> broken]

Uris == {<<>>, <<"u1">>, <<"u2">>}
ChunkTitles == {<<>>, <<"A">>, <<CardOpen>>}

Chunks ==
    {Chunk(FALSE, <<>>, <<>>, FALSE), Chunk(FALSE, <<>>, <<>>, TRUE)}
        \cup {Chunk(TRUE, u, t, FALSE) : u \in Uris, t \in ChunkTitles}

\* The reply of model.generate_content: it raised, or it is a response with
\* zero or one candidate, with or without grounding metadata, whose metadata
\* has or lacks the grounding_chunks attribute.
GoogleReply(kind, candidate, metadata, hasChunks, chunks) ==
    [kind |-> kind, candidate |-> candidate, metadata |-> metadata,
     hasChunks |-> hasChunks, chunks |-> chunks]

GoogleResponses ==
    Enumerated(
        {GoogleReply("raise", FALSE, FALSE, FALSE, <<>>),
         GoogleReply("response", FALSE, FALSE, FALSE, <<>>),
         GoogleReply("response", TRUE, FALSE, FALSE, <<>>),
         GoogleReply("response", TRUE, TRUE, FALSE, <<>>)}
            \cup {GoogleReply("response", TRUE, TRUE, TRUE, cs) :
                    cs \in SeqsUpTo(Chunks, MaxChunks)})

\* line 37 and line 39: the chunks the loop of line 40 visits
VisitedChunks(resp) ==
    IF resp.kind = "response" /\ resp.candidate /\ resp.metadata /\ resp.hasChunks
    THEN resp.chunks ELSE <<>>

\* line 41
ValidChunk(c) == c.web /\ c.uri # <<>> /\ c.title # <<>>

\* lines 42-47
GoogleRecord(c) ==
    [title |-> c.title, url |-> c.uri,
     summary |-> <<"Google Search Result (Gemini Grounding)">>,
     source |-> "Google"]

\* d[r['url']] = r on an insertion-ordered dict, kept as the sequence of its
\* values: a new key goes to the end, a known key has its value replaced
DictPutAppend(d, r) == Append(d, r)
DictPutKeepFirst(d, r) ==
    IF \E i \in 1..Len(d) : d[i].url = r.url THEN d ELSE Append(d, r)
DictPut(d, r) ==
    IF \E i \in 1..Len(d) : d[i].url = r.url
    THEN [i \in 1..Len(d) |-> IF d[i].url = r.url THEN r ELSE d[i]]
    ELSE Append(d, r)

\* line 50: {r['url']: r for r in results}.values()
RECURSIVE DictOf(_, _)
DictOf(d, rs) == IF rs = <<>> THEN d ELSE DictOf(DictPut(d, Head(rs)), Tail(rs))

UniqueResults(rs) == DictOf(<<>>, rs)

\* lines 34-47: results after the loop
Extracted(chunks) ==
    LET valid == SelectSeq(chunks, ValidChunk)
    IN  [i \in 1..Len(valid) |-> GoogleRecord(valid[i])]

\* lines 22-55: what search_google hands back for a reply
SearchGoogle(resp) ==
    IF resp.kind = "raise" THEN Ret(<<>>)
    ELSE IF \E i \in 1..Len(VisitedChunks(resp)) : VisitedChunks(resp)[i].broken
         THEN Ret(<<>>)
         ELSE Ret(UniqueResults(Extracted(VisitedChunks(resp))))

----------------------------------------------------------------------------
(* search_cinii: the HTTP request and the parsing of the RSS 1.0 feed *)

\* An element looked up with item.find: missing, or present with its text
\* (an element without text has the empty text)
Elem(present, text) == [present |-> present, text |-> text]
NoElem == Elem(FALSE, <<>>)

\* A child of the feed's root: an rss:item, or another element (rss:channel)
Child(kind, title, link, description, creators, date) ==
    [kind |-> kind, title |-> title, link |-> link, description |-> description,
     creators |-> creators, date |-> date]

ChannelChild == Child("channel", NoElem, NoElem, NoElem, <<>>, NoElem)

\* The reply of requests.get: it raised, or it is a response with a status
\* code and a body that is well-formed XML (the root's children) or is not
CiniiReply(kind, status, wellformed, children) ==
    [kind |-> kind, status_code |-> status, wellformed |-> wellformed,
     children |-> children]

\* lines 89-92, 95-98, 101-104: the element's stripped text, or the default
ElemTextRaw(e, default) == IF e.present /\ e.text # <<>> THEN e.text ELSE default
ElemText(e, default) ==
    IF e.present /\ e.text # <<>> THEN Strip(e.text) ELSE default

\* line 121
TruncateAtLeast(summary) ==
    IF Len(summary) >= SummaryLimit
    THEN SubSeq(summary, 1, SummaryLimit) \o <<".", ".", ".">>
    ELSE summary
Truncate(summary) ==
    IF Len(summary) > SummaryLimit
    THEN SubSeq(summary, 1, SummaryLimit) \o <<".", ".", ".">>
    ELSE summary

\* lines 107-110
HasText(t) == t # <<>>
Authors(creators) == SelectSeq(creators, HasText)

\* lines 113-116
DateStr(e) ==
    IF e.present /\ e.text # <<>> THEN <<" ", "(">> \o e.text \o <<")">> ELSE <<>>

\* lines 87-124: the record of one item
CiniiRecord(item) ==
    [title |-> ElemText(item.title, <<"No Title">>),
     url |-> ElemText(item.link, <<>>),
     summary |-> Truncate(ElemText(item.description, <<"No description available.">>)),
     authors |-> Join(<<",", " ">>, Authors(item.creators)) \o DateStr(item.date),
     source |-> "CiNii"]

\* line 85: root.findall('rss:item', ns), the item children in document order
IsItem(child) == child.kind = "item"
FindAllItems(children) == SelectSeq(children, IsItem)

\* lines 87-126
Parsed(children) ==
    LET items == FindAllItems(children)
    IN  [i \in 1..Len(items) |-> CiniiRecord(items[i])]

\* lines 61-130: what search_cinii hands back for a reply
SearchCiniiAnyStatus(resp) ==
    IF resp.kind = "raise" THEN Ret(<<>>)
    ELSE IF ~resp.wellformed THEN Ret(<<>>)
    ELSE Ret(Parsed(resp.children))
SearchCinii(resp) ==
    IF resp.kind = "raise" THEN Ret(<<>>)
    ELSE IF resp.status_code # 200 THEN Ret(<<>>)
    ELSE IF ~resp.wellformed THEN Ret(<<>>)
    ELSE Ret(Parsed(resp.children))

\* The feeds explored for the parser: descriptions around the truncation
\* limit, with and without surrounding whitespace and an inner newline
Body(n) == IF n >= 3 THEN <<"a", "\n">> \o Rep("a", n - 2) ELSE Rep("a", n)
Padded(p, s) == Rep(" ", p) \o s \o Rep("\n", p)

DescLens == {1} \cup ((SummaryLimit - Slack)..(SummaryLimit + Slack))

Descriptions ==
    {NoElem, Elem(TRUE, <<>>), Elem(TRUE, <<" ", "\n">>)}
        \cup {Elem(TRUE, Padded(p, Body(n))) : p \in {0, 1}, n \in DescLens}

BareItem(d) == Child("item", NoElem, NoElem, d, <<>>, NoElem)
FullItem(d) ==
    Child("item", Elem(TRUE, <<" ", "a", "\n", "a", " ">>), Elem(TRUE, <<"l1", "\n">>),
          d, <<<<"x">>, <<>>, <<"y">>>>, Elem(TRUE, <<"2020">>))

LongChildren ==
    {ChannelChild} \cup {BareItem(d) : d \in Descriptions}
                   \cup {FullItem(d) : d \in Descriptions}

\* The feeds explored in a whole run: short text, one item whose description
\* is the text of the renderer's placeholder
RunChildren ==
    {ChannelChild, BareItem(NoElem), FullItem(Elem(TRUE, <<"a">>)),
     FullItem(Elem(TRUE, <<NoResultsText>>))}

CiniiResponsesOver(children) ==
    {CiniiReply("raise", 0, FALSE, <<>>)}
        \cup {CiniiReply("response", st, FALSE, <<>>) : st \in {200, 500}}
        \cup {CiniiReply("response", 200, TRUE, cs) : cs \in SeqsUpTo(children, MaxChildren)}
        \cup {CiniiReply("response", 404, TRUE, cs) : cs \in SeqsUpTo(RunChildren, MaxChildren)}

RunCiniiResponses == Enumerated(CiniiResponsesOver(RunChildren))
LongCiniiResponses == Enumerated(CiniiResponsesOver(LongChildren))

----------------------------------------------------------------------------
(* generate_html_report: the document and the file *)

Placeholder == <<"<p>", NoResultsText, "</p>">>
H2Google == "<h2>Google Search Results</h2>"
H2Cinii == "<h2>CiNii results</h2>"
Footer == "<div>Generated by Python Research Aggregator (CiNii Version)</div></body></html>"

\* line 139
GoogleCard(r) ==
    <<CardOpen, "<div class=\"title\">", "<a href=\"">> \o r.url
        \o <<"\" target=\"_blank\">">> \o r.title
        \o <<"</a>", "</div>", "<div class=\"meta\">">> \o r.url
        \o <<"</div>", "<div class=\"summary\">">> \o r.summary
        \o <<"</div>", "</div>">>

\* line 146
CiniiCard(r) ==
    <<CardOpen, "<div class=\"title\">", "<a href=\"">> \o r.url
        \o <<"\" target=\"_blank\">">> \o r.title
        \o <<"</a>", "</div>", "<div class=\"meta\">", "<strong>Authors/Date:</strong> ">>
        \o r.authors
        \o <<"</div>", "<div class=\"summary\">">> \o r.summary
        \o <<"</div>", "</div>">>

\* lines 136-139: google_html
RECURSIVE GoogleCards(_)
GoogleCards(rs) ==
    IF rs = <<>> THEN <<>> ELSE GoogleCard(Head(rs)) \o GoogleCards(Tail(rs))

\* lines 137-141
GoogleHtml(rs) == IF rs # <<>> THEN GoogleCards(rs) ELSE Placeholder

\* lines 143-146: cinii_html
RECURSIVE CiniiCards(_)
CiniiCards(rs) ==
    IF rs = <<>> THEN <<>> ELSE CiniiCard(Head(rs)) \o CiniiCards(Tail(rs))

\* lines 144-148
CiniiHtml(rs) == IF rs # <<>> THEN CiniiCards(rs) ELSE Placeholder

\* line 134: time.strftime('%Y-%m-%d')
CurrentDate == <<"2024-01-01">>

\* lines 150-181
HtmlTemplate(q, date, google_html, cinii_html) ==
    <<"<!DOCTYPE html><html lang=\"ja\"><head><title>Research Report: ">> \o q
        \o <<"</title><style>...</style></head><body><h1>Research Report</h1>",
             "<p><strong>Topic:</strong> ">> \o q
        \o <<" | <strong>Date:</strong> ">> \o date
        \o <<"</p>", H2Google>> \o google_html
        \o <<H2Cinii>> \o cinii_html
        \o <<Footer>>

\* line 187: query.replace(' ', '_')
ReplaceSpaces(q) == [i \in 1..Len(q) |-> IF q[i] = " " THEN "_" ELSE q[i]]

\* lines 183-188
FilePath(q) == <<"reports", "/", "report_">> \o ReplaceSpaces(q) \o <<".html">>

NoFile == [exists |-> FALSE, content |-> <<>>]
OldFile == [exists |-> TRUE, content |-> <<"old report">>]

----------------------------------------------------------------------------
(* The run: __main__, run() and the steps of the functions it calls *)

Event(ev, arg) == [ev |-> ev, arg |-> arg]
Logged(ev) == \E i \in 1..Len(log) : log[i].ev = ev

Lines == Enumerated(SeqsUpTo({" ", "a"}, MaxLine))

\* line 200: input(...).strip()
TopicOfRaw(line) == line
TopicOf(line) == Strip(line)

Init ==
    /\ pc = "main"
    /\ dirExists \in BOOLEAN
    /\ file \in (IF dirExists THEN {NoFile, OldFile} ELSE {NoFile})
    /\ query = <<>>
    /\ response = NoLocal
    /\ results = NoLocal
    /\ g_results = <<>>
    /\ c_results = <<>>
    /\ html = <<>>
    /\ raisedFrom = <<>>
    /\ log = <<>>

\* lines 212-222: the credential is read; without one nothing else runs
Main ==
    /\ pc = "main"
    /\ \E key \in BOOLEAN :
         /\ pc' = IF key THEN "input" ELSE "done"
         /\ log' = Append(log, Event(IF key THEN "configured" ELSE "no_key", <<>>))
    /\ UNCHANGED <<dirExists, file, query, response, results, g_results, c_results,
                   html, raisedFrom>>

\* lines 200-203: the topic is read and trimmed; an empty topic ends the run
ReadTopic ==
    /\ pc = "input"
    /\ \E line \in Lines :
         /\ log' = Append(log, Event("input", line))
         /\ query' = TopicOf(line)
         /\ pc' = IF TopicOf(line) = <<>> THEN "done" ELSE "google_call"
    /\ UNCHANGED <<dirExists, file, response, results, g_results, c_results, html,
                   raisedFrom>>

\* line 200: input() raises at end of input; only __main__ catches it (line 225)
ReadTopicEOF ==
    /\ pc = "input"
    /\ raisedFrom' = raisedFrom \o <<"run">>
    /\ log' = Append(log, Event("eof", <<>>))
    /\ pc' = "except"
    /\ UNCHANGED <<dirExists, file, query, response, results, g_results, c_results, html>>

\* lines 21-32: the grounded generation call is issued and answered
GoogleGenerate ==
    /\ pc = "google_call"
    /\ \E resp \in GoogleResponses : response' = resp
    /\ log' = Append(log, Event("web_search_start", <<>>))
    /\ pc' = "google_extract"
    /\ UNCHANGED <<dirExists, file, query, results, g_results, c_results, html, raisedFrom>>

\* lines 34-55
GoogleExtract ==
    /\ pc = "google_extract"
    /\ results' = SearchGoogle(response)
    /\ pc' = "google_return"
    /\ UNCHANGED <<dirExists, file, query, response, g_results, c_results, html,
                   raisedFrom, log>>

\* line 206: search_google returns into g_results, or raises through run()
RunAssignGoogle ==
    /\ pc = "google_return"
    /\ IF results.raised
       THEN /\ raisedFrom' = raisedFrom \o <<"search_google", "run">>
            /\ pc' = "except"
            /\ UNCHANGED g_results
       ELSE /\ g_results' = results.value
            /\ pc' = "cinii_call"
            /\ UNCHANGED raisedFrom
    /\ log' = Append(log, Event("web_search_end", <<>>))
    /\ response' = NoLocal
    /\ results' = NoLocal
    /\ UNCHANGED <<dirExists, file, query, c_results, html>>

\* lines 59-60: time.sleep(1), before the try block and before the request
CiniiSleepIfResults ==
    /\ pc = "cinii_call"
    /\ log' = IF g_results # <<>> THEN Append(log, Event("delay", <<>>)) ELSE log
    /\ pc' = "cinii_request"
    /\ UNCHANGED <<dirExists, file, query, response, results, g_results, c_results,
                   html, raisedFrom>>
CiniiSleep ==
    /\ pc = "cinii_call"
    /\ log' = Append(log, Event("delay", <<>>))
    /\ pc' = "cinii_request"
    /\ UNCHANGED <<dirExists, file, query, response, results, g_results, c_results,
                   html, raisedFrom>>

\* urllib.parse.quote(query): a space becomes %20, a letter stays
Quote(q) == [i \in 1..Len(q) |-> IF q[i] = " " THEN "%20" ELSE q[i]]

\* lines 63-66: the GET request is issued and answered with one of replies
CiniiRequest(replies) ==
    /\ pc = "cinii_request"
    /\ \E resp \in replies : response' = resp
    /\ log' = Append(log, Event("scholarly_request", Quote(query)))
    /\ pc' = "cinii_parse"
    /\ UNCHANGED <<dirExists, file, query, results, g_results, c_results, html, raisedFrom>>

CiniiRequestRun == CiniiRequest(RunCiniiResponses)
CiniiRequestLong == CiniiRequest(LongCiniiResponses)

\* lines 68-130
CiniiParse ==
    /\ pc = "cinii_parse"
    /\ results' = SearchCinii(response)
    /\ pc' = "cinii_return"
    /\ UNCHANGED <<dirExists, file, query, response, g_results, c_results, html,
                   raisedFrom, log>>

\* line 207: search_cinii returns into c_results, or raises through run()
RunAssignCinii ==
    /\ pc = "cinii_return"
    /\ IF results.raised
       THEN /\ raisedFrom' = raisedFrom \o <<"search_cinii", "run">>
            /\ pc' = "except"
            /\ UNCHANGED c_results
       ELSE /\ c_results' = results.value
            /\ pc' = "render"
            /\ UNCHANGED raisedFrom
    /\ log' = Append(log, Event("scholarly_end", <<>>))
    /\ response' = NoLocal
    /\ results' = NoLocal
    /\ UNCHANGED <<dirExists, file, query, g_results, html>>

\* lines 210, 134-181: generate_html_report is called and builds the document
BuildReport ==
    /\ pc = "render"
    /\ html' = HtmlTemplate(query, CurrentDate, GoogleHtml(g_results),
                            CiniiHtml(c_results))
    /\ log' = Append(log, Event("render", <<>>))
    /\ pc' = "makedirs"
    /\ UNCHANGED <<dirExists, file, query, response, results, g_results, c_results,
                   raisedFrom>>

\* lines 183-185: os.makedirs when the directory is absent, outside any try
EnsureDir ==
    /\ pc = "makedirs"
    /\ \E ok \in BOOLEAN :
         IF dirExists
         THEN /\ pc' = "open"
              /\ UNCHANGED <<dirExists, raisedFrom, log>>
         ELSE IF ok
              THEN /\ dirExists' = TRUE
                   /\ pc' = "open"
                   /\ log' = Append(log, Event("makedirs", <<>>))
                   /\ UNCHANGED raisedFrom
              ELSE /\ raisedFrom' = raisedFrom \o <<"generate_html_report", "run">>
                   /\ pc' = "except"
                   /\ log' = Append(log, Event("makedirs_failed", <<>>))
                   /\ UNCHANGED dirExists
    /\ UNCHANGED <<file, query, response, results, g_results, c_results, html>>

\* lines 190-191, 194-195: open(filepath, "w"); a failure is caught and printed
OpenFile ==
    /\ pc = "open"
    /\ \E ok \in BOOLEAN :
         /\ file' = IF ok THEN [exists |-> TRUE, content |-> <<>>] ELSE file
         /\ pc' = IF ok THEN "write" ELSE "report_return"
    /\ log' = Append(log, Event("file_write", FilePath(query)))
    /\ UNCHANGED <<dirExists, query, response, results, g_results, c_results, html,
                   raisedFrom>>

\* lines 192-195: f.write(html_template); a failure is caught and printed
WriteFile ==
    /\ pc = "write"
    /\ \E ok \in BOOLEAN :
         file' = IF ok THEN [exists |-> TRUE, content |-> html] ELSE file
    /\ pc' = "report_return"
    /\ UNCHANGED <<dirExists, query, response, results, g_results, c_results, html,
                   raisedFrom, log>>

\* generate_html_report returns to run(), run() to __main__
ReportReturn ==
    /\ pc = "report_return"
    /\ log' = Append(log, Event("report_returned", <<>>))
    /\ pc' = "done"
    /\ UNCHANGED <<dirExists, file, query, response, results, g_results, c_results,
                   html, raisedFrom>>

\* lines 223-226: __main__ prints the error that reached it
MainExcept ==
    /\ pc = "except"
    /\ log' = Append(log, Event("unexpected_error", <<>>))
    /\ pc' = "done"
    /\ UNCHANGED <<dirExists, file, query, response, results, g_results, c_results,
                   html, raisedFrom>>

Next ==
    \/ Main
    \/ ReadTopic
    \/ ReadTopicEOF
    \/ GoogleGenerate
    \/ GoogleExtract
    \/ RunAssignGoogle
    \/ CiniiSleep
    \/ CiniiRequestRun
    \/ CiniiParse
    \/ RunAssignCinii
    \/ BuildReport
    \/ EnsureDir
    \/ OpenFile
    \/ WriteFile
    \/ ReportReturn
    \/ MainExcept

Spec == Init /\ [][Next]_vars

\* search_cinii alone, entered after a web search that returned nothing, on
\* feeds whose descriptions reach the truncation limit
InitCinii ==
    /\ pc = "cinii_call"
    /\ dirExists \in BOOLEAN
    /\ file = NoFile
    /\ query \in {<<"a">>, <<"a", " ", "a">>}
    /\ response = NoLocal
    /\ results = NoLocal
    /\ g_results = <<>>
    /\ c_results = <<>>
    /\ html = <<>>
    /\ raisedFrom = <<>>
    /\ log = <<Event("configured", <<>>), Event("input", query),
               Event("web_search_start", <<>>), Event("web_search_end", <<>>)>>

NextCinii ==
    \/ CiniiSleep
    \/ CiniiRequestLong
    \/ CiniiParse
    \/ RunAssignCinii

SpecCinii == InitCinii /\ [][NextCinii]_vars

----------------------------------------------------------------------------
(* Properties *)

Indices(sq) == 1..Len(sq)
AllWhitespace(s) == \A k \in Indices(s) : s[k] \in Whitespace

\* d is raw without its leading and trailing whitespace, and nothing else changed
IsTrimOf(raw, d) ==
    /\ Len(d) <= Len(raw)
    /\ d # <<>> => d[1] \notin Whitespace /\ d[Len(d)] \notin Whitespace
    /\ \E i \in 0..(Len(raw) - Len(d)) :
         /\ \A k \in 1..i : raw[k] \in Whitespace
         /\ \A k \in (i + Len(d) + 1)..Len(raw) : raw[k] \in Whitespace
         /\ SubSeq(raw, i + 1, i + Len(d)) = d

\* summary is the 300-character rule applied to raw
IsCutOf(raw, summary) ==
    IF Len(raw) > SummaryLimit
    THEN /\ Len(summary) = SummaryLimit + 3
         /\ SubSeq(summary, 1, SummaryLimit) = SubSeq(raw, 1, SummaryLimit)
         /\ SubSeq(summary, SummaryLimit + 1, SummaryLimit + 3) = <<".", ".", ".">>
    ELSE summary = raw

\* summary is the 300-character rule applied to raw trimmed of its leading
\* and trailing whitespace
IsCutOfTrimmed(raw, summary) ==
    \/ Len(summary) <= SummaryLimit /\ IsTrimOf(raw, summary)
    \/ /\ Len(summary) = SummaryLimit + 3
       /\ SubSeq(summary, SummaryLimit + 1, SummaryLimit + 3) = <<".", ".", ".">>
       /\ \E i \in 0..(Len(raw) - SummaryLimit - 1) :
            /\ \A k \in 1..i : raw[k] \in Whitespace
            /\ raw[i + 1] \notin Whitespace
            /\ SubSeq(raw, i + 1, i + SummaryLimit) = SubSeq(summary, 1, SummaryLimit)
            /\ \E k \in (i + SummaryLimit + 1)..Len(raw) : raw[k] \notin Whitespace

HasValue(e) == e.present /\ e.text # <<>>

\* the chunks that carry a non-empty URL and a non-empty title
Carrying(cs) == {k \in Indices(cs) : cs[k].web /\ cs[k].uri # <<>> /\ cs[k].title # <<>>}

ChunksHandedOver ==
    /\ pc = "google_return"
    /\ response.kind = "response"
    /\ response.hasChunks
    /\ \A k \in Indices(response.chunks) : ~response.chunks[k].broken

\* C1: for every sequence of grounding chunks handed to the extraction step,
\* the list search_google returns has exactly one record per distinct URL
\* among the chunks that carry both a non-empty URL and a non-empty title:
\* no URL twice, none missing, none added.
C1_OneRecordPerUrl ==
    ChunksHandedOver =>
        LET cs == response.chunks
            out == results.value
        IN  /\ ~results.raised
            /\ \A i, j \in Indices(out) : i # j => out[i].url # out[j].url
            /\ {out[i].url : i \in Indices(out)} = {cs[k].uri : k \in Carrying(cs)}

C1_Witness ==
    /\ ChunksHandedOver
    /\ Len(response.chunks) = 3
    /\ response.chunks[1].uri = <<"u1">> /\ response.chunks[1].title = <<"A">>
    /\ response.chunks[2].uri = <<"u2">> /\ response.chunks[2].title = <<>>
    /\ response.chunks[3].uri = <<"u1">> /\ response.chunks[3].title = <<"A">>
    /\ Len(results.value) = 1

\* C9: when several valid chunks share a URL, the single record returned for
\* it sits where the URL first appeared among the distinct URLs, and carries
\* the title of the last chunk with that URL.
C9_FirstPlaceLastTitle ==
    ChunksHandedOver =>
        LET cs == response.chunks
            out == results.value
            At(u) == {k \in Carrying(cs) : cs[k].uri = u}
            First(u) == CHOOSE k \in At(u) : \A m \in At(u) : k <= m
            Last(u) == CHOOSE k \in At(u) : \A m \in At(u) : m <= k
        IN  /\ \A i \in Indices(out) : At(out[i].url) # {}
            /\ \A i \in Indices(out) : out[i].title = cs[Last(out[i].url)].title
            /\ \A i, j \in Indices(out) :
                 i < j => First(out[i].url) < First(out[j].url)

C9_Witness ==
    /\ ChunksHandedOver
    /\ Len(response.chunks) = 3
    /\ response.chunks[1].uri = <<"u1">> /\ response.chunks[1].title = <<"A">>
    /\ response.chunks[2].uri = <<"u2">> /\ response.chunks[2].title = <<"A">>
    /\ response.chunks[3].uri = <<"u1">> /\ response.chunks[3].title = <<CardOpen>>
    /\ Len(results.value) = 2
    /\ results.value[1].url = <<"u1">> /\ results.value[1].title = <<CardOpen>>
    /\ results.value[2].url = <<"u2">>

FeedParsed ==
    /\ pc = "cinii_return"
    /\ response.kind = "response"
    /\ response.status_code = 200
    /\ response.wellformed

ItemNode(child) == child.kind = "item"
ItemNodes == SelectSeq(response.children, ItemNode)

\* C2 as stated: N item nodes give N records in document order, and each
\* summary is the 300-character rule applied to the item's description as it
\* stands in the feed.
C2_Original ==
    FeedParsed =>
        /\ Len(results.value) = Len(ItemNodes)
        /\ \A k \in Indices(ItemNodes) :
             HasValue(ItemNodes[k].description) =>
                 IsCutOf(ItemNodes[k].description.text, results.value[k].summary)

\* C2, amended: N item nodes give N records in document order, none dropped
\* as a duplicate, and each summary is the 300-character rule applied to the
\* item's description trimmed of leading and trailing whitespace; an item
\* with no description text gets the fixed text "No description available.".
C2_CountOrderTruncation ==
    FeedParsed =>
        /\ ~results.raised
        /\ Len(results.value) = Len(ItemNodes)
        /\ \A k \in Indices(ItemNodes) :
             /\ IF HasValue(ItemNodes[k].link)
                THEN IsTrimOf(ItemNodes[k].link.text, results.value[k].url)
                ELSE results.value[k].url = <<>>
             /\ IF HasValue(ItemNodes[k].description)
                THEN IsCutOfTrimmed(ItemNodes[k].description.text, results.value[k].summary)
                ELSE results.value[k].summary = <<"No description available.">>

C2_Witness ==
    /\ FeedParsed
    /\ Len(response.children) = 2
    /\ Len(results.value) = 2
    /\ results.value[1].url = <<"l1">>
    /\ results.value[2].url = <<"l1">>
    /\ Len(response.children[1].description.text) = SummaryLimit + 1
    /\ Len(results.value[1].summary) = SummaryLimit + 3
    /\ Len(response.children[2].description.text) = SummaryLimit
    /\ results.value[2].summary = response.children[2].description.text

\* C10 as stated: no title and no summary search_cinii returns contains a
\* newline character.
C10_Original ==
    pc = "cinii_return" =>
        \A k \in Indices(results.value) :
            /\ Count(results.value[k].title, "\n") = 0
            /\ Count(results.value[k].summary, "\n") = 0

\* C10, amended: the title and the summary of every record are the element
\* text trimmed of leading and trailing whitespace only (the summary before
\* the 300-character truncation); a newline inside the text stays, so no
\* returned title or summary begins or ends with a whitespace character.
C10_TrimmedOnly ==
    FeedParsed =>
        \A k \in Indices(ItemNodes) :
            /\ k <= Len(results.value)
            /\ HasValue(ItemNodes[k].title) =>
                   IsTrimOf(ItemNodes[k].title.text, results.value[k].title)
            /\ HasValue(ItemNodes[k].description) =>
                   IsCutOfTrimmed(ItemNodes[k].description.text, results.value[k].summary)
            /\ \A t \in {results.value[k].title, results.value[k].summary} :
                   t # <<>> => t[1] \notin Whitespace /\ t[Len(t)] \notin Whitespace

C10_Witness ==
    /\ FeedParsed
    /\ Len(results.value) = 1
    /\ response.children[1].title.text = <<" ", "a", "\n", "a", " ">>
    /\ results.value[1].title = <<"a", "\n", "a">>
    /\ Len(response.children[1].description.text) = SummaryLimit + 3
    /\ Len(results.value[1].summary) = SummaryLimit + 3
    /\ results.value[1].summary[2] = "\n"

\* C3: search_google and search_cinii never raise to their caller; whatever
\* the remote call did they return a list, and after any failure (exception,
\* non-200 status, malformed XML, malformed model response) the list is
\* empty, with no partially extracted record.
C3_ClientsFailSoft ==
    /\ \A i \in Indices(raisedFrom) : raisedFrom[i] \notin {"search_google", "search_cinii"}
    /\ pc = "google_return" =>
         /\ ~results.raised
         /\ (\/ response.kind = "raise"
             \/ \E k \in Indices(response.chunks) : response.chunks[k].broken)
                => results.value = <<>>
    /\ pc = "cinii_return" =>
         /\ ~results.raised
         /\ (\/ response.kind = "raise"
             \/ response.status_code # 200
             \/ ~response.wellformed)
                => results.value = <<>>

C3_Witness ==
    /\ pc = "cinii_return"
    /\ response.kind = "response"
    /\ response.status_code = 404
    /\ response.wellformed
    /\ Len(response.children) = 2
    /\ response.children[1].kind = "item"
    /\ results.value = <<>>
    /\ g_results # <<>>

\* the first place of sym in doc
Place(doc, sym) == CHOOSE i \in Indices(doc) : doc[i] = sym /\ \A j \in 1..(i - 1) : doc[j] # sym

GoogleSection == SubSeq(html, Place(html, H2Google) + 1, Place(html, H2Cinii) - 1)
CiniiSection == SubSeq(html, Place(html, H2Cinii) + 1, Len(html) - 1)

SectionAsClaimed(section, rs) ==
    IF rs = <<>>
    THEN Count(section, NoResultsText) = 1 /\ Count(section, CardOpen) = 0
    ELSE Count(section, NoResultsText) = 0 /\ Count(section, CardOpen) = Len(rs)

\* C4: in the document generate_html_report builds, a section whose result
\* sequence is empty holds the placeholder "No results found." and no card
\* block, and a section with K >= 1 records holds exactly K card blocks and
\* no placeholder, each section independently of the other.
C4_CardsPerSection ==
    html # <<>> =>
        /\ SectionAsClaimed(GoogleSection, g_results)
        /\ SectionAsClaimed(CiniiSection, c_results)

\* C5: when the line read is empty after trimming, the run ends without a
\* web-search call, a delay or a scholarly request, without rendering,
\* without creating the reports directory and without opening any file.
C5_EmptyTopicDoesNothing ==
    \A k \in Indices(log) :
        (log[k].ev = "input" /\ AllWhitespace(log[k].arg)) =>
            /\ pc = "done"
            /\ k = Len(log)
            /\ query = <<>>
            /\ file \in {NoFile, OldFile}
            /\ html = <<>>
            /\ \A m \in Indices(log) : log[m].ev \in {"configured", "input"}

C5_Witness ==
    /\ pc = "done"
    /\ ~dirExists
    /\ \E k \in Indices(log) : log[k].ev = "input" /\ log[k].arg = <<" ", " ">>

StageOrder ==
    <<"web_search_start", "web_search_end", "delay", "scholarly_request", "render",
      "file_write">>

IsStage(e) == \E i \in Indices(StageOrder) : StageOrder[i] = e.ev
Stages == SelectSeq(log, IsStage)

\* C6: the events of a run occur in one fixed order, each at most once: the
\* web search starts and ends, then the delay, then the scholarly request,
\* then rendering and the file write.  The request never precedes the end of
\* the web search or the delay, whatever the web search returned.
C6_FixedOrder ==
    /\ Len(Stages) <= Len(StageOrder)
    /\ \A i \in Indices(Stages) : Stages[i].ev = StageOrder[i]

C6_Witness ==
    /\ pc = "done"
    /\ Len(Stages) = Len(StageOrder)
    /\ g_results = <<>>
    /\ c_results # <<>>

\* C7: a failure of any filesystem step of generate_html_report (creating
\* the directory, opening the file, writing it) is caught inside it: no
\* exception ever leaves generate_html_report.
C7_ReportNeverRaises ==
    \A i \in Indices(raisedFrom) : raisedFrom[i] # "generate_html_report"

\* C8: for a non-empty topic, once a source client has returned records the
\* run ends with generate_html_report called exactly once on the two result
\* sequences and the write of the report file attempted.
C8_ReportAttempted ==
    (pc = "done" /\ (g_results # <<>> \/ c_results # <<>>)) =>
        /\ Cardinality({i \in Indices(log) : log[i].ev = "render"}) = 1
        /\ html = HtmlTemplate(query, CurrentDate, GoogleHtml(g_results), CiniiHtml(c_results))
        /\ Logged("file_write")

====
